---- MODULE Spec2Model ----
(***************************************************************************)
(* A model of the symbol namer and occurrence emitter of scip-typescript   *)
(* (FileIndexer), of its descriptor codec (Descriptor.ts) and of the       *)
(* snapshot formatter.  Strings are sequences of one-character strings, so *)
(* that escaping, rendering and prefix tests are computed, not assumed.    *)
(***************************************************************************)
EXTENDS Integers, Sequences, FiniteSets, TLC

VARIABLES
    packages,           \* Packages.symbol: file -> package name, or NoPackage
    refs,               \* the semantic resolver's answer for the free reference identifiers
    values,             \* the resolver's answer for the value symbol of a shorthand property
    layout,             \* the property assignments of file P, in source order
    todo,               \* the files this run indexes
    order,              \* the files whose index() has returned, in the order they were indexed
    cur,                \* the file whose FileIndexer is traversing, or NoFile
    pos,                \* number of identifiers of cur already visited
    globalSymbolTable,  \* the Map shared by every FileIndexer of the run
    localCounter,       \* per FileIndexer: the Counter's n
    propertyCounters,   \* per FileIndexer: property name -> Counter's n, or NoCounter
    localSymbolTable,   \* per FileIndexer: node -> LsifSymbol, or NoSym
    document,           \* per file: [occurrences, symbols]
    returned,           \* history: node -> the set of identities lsifSymbol has returned for it
    allocated,          \* history: per file, the local indices handed out, in order
    lastVisit,          \* history: the identifier last visited and what the visit appended
    snapshot,           \* per file: the outcome of formatSnapshot on its Document, or NotFormatted
    desc,               \* codec: the descriptor handed to the codec
    escaped,            \* codec: the result of escapedName(desc), or NotRendered
    rendered            \* codec: the result of descriptorString(desc), or NotRendered

vars == <<packages, refs, values, layout, todo, order, cur, pos, globalSymbolTable,
          localCounter, propertyCounters, localSymbolTable, document, returned, allocated,
          lastVisit, snapshot, desc, escaped, rendered>>

runVars == <<packages, refs, values, layout, todo, order, cur, pos,
             globalSymbolTable, localCounter, propertyCounters, localSymbolTable, document,
             returned, allocated, lastVisit, snapshot>>

\* the inputs of a run
inputVars == <<packages, refs, values, layout>>

codecVars == <<desc, escaped, rendered>>

(***************************************************************************)
(* Characters and strings                                                  *)
(***************************************************************************)
Letters ==
    {"a","b","c","d","e","f","g","h","i","j","k","l","m","n","o","p","q","r","s","t",
     "u","v","w","x","y","z",
     "A","B","C","D","E","F","G","H","I","J","K","L","M","N","O","P","Q","R","S","T",
     "U","V","W","X","Y","Z"}

\* The grave accent (U+0060) that escapedName wraps names in. The lexer of the
\* tools rejects that character inside a string, so it is the one character of the
\* model that is written as a word.
Backtick == "grave"

Digits == <<"0","1","2","3","4","5","6","7","8","9">>

DigitSet == {Digits[i] : i \in 1..10}

\* \w of a JavaScript regular expression without the u flag
WordChars == Letters \cup DigitSet \cup {"_"}

\* /^[\w$+-]+$/i
isSimpleIdentifier(name) ==
    /\ Len(name) > 0
    /\ \A i \in 1..Len(name) : name[i] \in WordChars \cup {"$", "+", "-"}

RECURSIVE replaceAllBacktick(_)
\* name.replaceAll(backtick, two backticks)
replaceAllBacktick(name) ==
    IF name = <<>> THEN <<>>
    ELSE (IF Head(name) = Backtick THEN <<Backtick, Backtick>> ELSE <<Head(name)>>)
         \o replaceAllBacktick(Tail(name))

\* a variant that wraps the name without doubling its backticks
escapedNameNoDoubling(d) ==
    IF d.name = <<>> THEN <<>>
    ELSE IF isSimpleIdentifier(d.name) THEN d.name
    ELSE <<Backtick>> \o d.name \o <<Backtick>>

escapedName(d) ==
    IF d.name = <<>> THEN <<>>
    ELSE IF isSimpleIdentifier(d.name) THEN d.name
    ELSE <<Backtick>> \o replaceAllBacktick(d.name) \o <<Backtick>>

(***************************************************************************)
(* Descriptors                                                             *)
(***************************************************************************)
KnownSuffixes == {"Package", "Type", "Term", "Meta", "Method", "Parameter", "TypeParameter"}

\* the members of the Suffix enumeration that descriptorString has no case for
OtherSuffixes == {"UnspecifiedSuffix", "Local", "Macro"}

Descriptor(name, suffix) == [name |-> name, suffix |-> suffix, disambiguator |-> <<>>]

packageDescriptor(name) == Descriptor(name, "Package")

typeDescriptor(name) == Descriptor(name, "Type")

termDescriptor(name) == Descriptor(name, "Term")

metaDescriptor(name) == Descriptor(name, "Meta")

methodDescriptor(name) == Descriptor(name, "Method")

parameterDescriptor(name) == Descriptor(name, "Parameter")

typeParameterDescriptor(name) == Descriptor(name, "TypeParameter")

\* the result of a call that returns a string or throws
Returned(s) == [ok |-> TRUE, str |-> s]

Thrown == [ok |-> FALSE, str |-> <<>>]

\* a variant in which an unknown suffix renders as the bare name
descriptorStringSilent(d) ==
    IF d.suffix = "Package" THEN Returned(escapedName(d) \o <<"/">>)
    ELSE IF d.suffix = "Type" THEN Returned(escapedName(d) \o <<"#">>)
    ELSE IF d.suffix = "Term" THEN Returned(escapedName(d) \o <<".">>)
    ELSE IF d.suffix = "Meta" THEN Returned(escapedName(d) \o <<":">>)
    ELSE IF d.suffix = "Method"
        THEN Returned(escapedName(d) \o <<"(">> \o d.disambiguator \o <<")", ".">>)
    ELSE IF d.suffix = "Parameter" THEN Returned(<<"(">> \o escapedName(d) \o <<")">>)
    ELSE IF d.suffix = "TypeParameter" THEN Returned(<<"[">> \o escapedName(d) \o <<"]">>)
    ELSE Returned(escapedName(d))

descriptorString(d) ==
    IF d.suffix = "Package" THEN Returned(escapedName(d) \o <<"/">>)
    ELSE IF d.suffix = "Type" THEN Returned(escapedName(d) \o <<"#">>)
    ELSE IF d.suffix = "Term" THEN Returned(escapedName(d) \o <<".">>)
    ELSE IF d.suffix = "Meta" THEN Returned(escapedName(d) \o <<":">>)
    ELSE IF d.suffix = "Method"
        THEN Returned(escapedName(d) \o <<"(">> \o d.disambiguator \o <<")", ".">>)
    ELSE IF d.suffix = "Parameter" THEN Returned(<<"(">> \o escapedName(d) \o <<")">>)
    ELSE IF d.suffix = "TypeParameter" THEN Returned(<<"[">> \o escapedName(d) \o <<"]">>)
    ELSE Thrown

(***************************************************************************)
(* The indexed project: a syntax tree per file, as the TypeScript compiler *)
(* hands it to FileIndexer.  Node(id, kind, parent, name, file).           *)
(*                                                                         *)
(*   A:  const a = 1, o = [{ a }, { a: 2 }]                                *)
(*       class C { constructor(q) {} }                                     *)
(*       function f() { { const v = 1 } }                                  *)
(*       enum E { M }                                                      *)
(*       interface I {}                                                    *)
(*       interface I {}                                                    *)
(*       rA                            (a reference the resolver answers)  *)
(*   B:  import { C } from './A'                                           *)
(*       rB                            (a reference the resolver answers)  *)
(*       const a = 2, o = { a: 3 }                                         *)
(*   P:  ({ a: 0, a: 0, a1: 0, a: 0 })  (a JavaScript file; which of its   *)
(*       properties there are, and where a1 stands, is the input layout)   *)
(***************************************************************************)
NoNode == "NoNode"

NoFile == "NoFile"

NoName == <<>>

Node(id, kind, parent, name, file) ==
    [id |-> id, kind |-> kind, parent |-> parent, name |-> name, file |-> file]

NodeTable == {
    Node("A",      "SourceFile",                  NoNode,   NoName,  "A"),
    Node("A.C",    "ClassDeclaration",            "A",      <<"C">>, "A"),
    Node("A.ctor", "Constructor",                 "A.C",    NoName,  "A"),
    Node("A.q",    "Parameter",                   "A.ctor", <<"q">>, "A"),
    Node("A.cb",   "Block",                       "A.ctor", NoName,  "A"),
    Node("A.f",    "FunctionDeclaration",         "A",      <<"f">>, "A"),
    Node("A.fb",   "Block",                       "A.f",    NoName,  "A"),
    Node("A.blk",  "Block",                       "A.fb",   NoName,  "A"),
    Node("A.vs",   "VariableStatement",           "A.blk",  NoName,  "A"),
    Node("A.vl",   "VariableDeclarationList",     "A.vs",   NoName,  "A"),
    Node("A.v",    "VariableDeclaration",         "A.vl",   <<"v">>, "A"),
    Node("A.as",   "VariableStatement",           "A",      NoName,  "A"),
    Node("A.al",   "VariableDeclarationList",     "A.as",   NoName,  "A"),
    Node("A.a",    "VariableDeclaration",         "A.al",   <<"a">>, "A"),
    Node("A.o",    "VariableDeclaration",         "A.al",   <<"o">>, "A"),
    Node("A.arr",  "ArrayLiteralExpression",      "A.o",    NoName,  "A"),
    Node("A.l1",   "ObjectLiteralExpression",     "A.arr",  NoName,  "A"),
    Node("A.sh",   "ShorthandPropertyAssignment", "A.l1",   <<"a">>, "A"),
    Node("A.l2",   "ObjectLiteralExpression",     "A.arr",  NoName,  "A"),
    Node("A.pa",   "PropertyAssignment",          "A.l2",   <<"a">>, "A"),
    Node("A.I1",   "InterfaceDeclaration",        "A",      <<"I">>, "A"),
    Node("A.I2",   "InterfaceDeclaration",        "A",      <<"I">>, "A"),
    Node("A.E",    "EnumDeclaration",             "A",      <<"E">>, "A"),
    Node("A.M",    "EnumMember",                  "A.E",    <<"M">>, "A"),
    Node("A.es",   "ExpressionStatement",         "A",      NoName,  "A"),
    Node("B",      "SourceFile",                  NoNode,   NoName,  "B"),
    Node("B.imp",  "ImportDeclaration",           "B",      NoName,  "B"),
    Node("B.cl",   "ImportClause",                "B.imp",  NoName,  "B"),
    Node("B.ni",   "NamedImports",                "B.cl",   NoName,  "B"),
    Node("B.spec", "ImportSpecifier",             "B.ni",   <<"C">>, "B"),
    Node("B.as",   "VariableStatement",           "B",      NoName,  "B"),
    Node("B.al",   "VariableDeclarationList",     "B.as",   NoName,  "B"),
    Node("B.a",    "VariableDeclaration",         "B.al",   <<"a">>, "B"),
    Node("B.o",    "VariableDeclaration",         "B.al",   <<"o">>, "B"),
    Node("B.l",    "ObjectLiteralExpression",     "B.o",    NoName,  "B"),
    Node("B.pb",   "PropertyAssignment",          "B.l",    <<"a">>, "B"),
    Node("B.es",   "ExpressionStatement",         "B",      NoName,  "B"),
    Node("P",      "SourceFile",                  NoNode,   NoName,  "P"),
    Node("P.es",   "ExpressionStatement",         "P",      NoName,  "P"),
    Node("P.par",  "ParenthesizedExpression",     "P.es",   NoName,  "P"),
    Node("P.l",    "ObjectLiteralExpression",     "P.par",  NoName,  "P"),
    Node("P.a01",  "PropertyAssignment",          "P.l",    <<"a">>, "P"),
    Node("P.a02",  "PropertyAssignment",          "P.l",    <<"a">>, "P"),
    Node("P.a03",  "PropertyAssignment",          "P.l",    <<"a">>, "P"),
    Node("P.a04",  "PropertyAssignment",          "P.l",    <<"a">>, "P"),
    Node("P.a05",  "PropertyAssignment",          "P.l",    <<"a">>, "P"),
    Node("P.a06",  "PropertyAssignment",          "P.l",    <<"a">>, "P"),
    Node("P.a07",  "PropertyAssignment",          "P.l",    <<"a">>, "P"),
    Node("P.a08",  "PropertyAssignment",          "P.l",    <<"a">>, "P"),
    Node("P.a09",  "PropertyAssignment",          "P.l",    <<"a">>, "P"),
    Node("P.a10",  "PropertyAssignment",          "P.l",    <<"a">>, "P"),
    Node("P.a11",  "PropertyAssignment",          "P.l",    <<"a">>, "P"),
    Node("P.b",    "PropertyAssignment",          "P.l",    <<"a", "1">>, "P") }

Nodes == {r.id : r \in NodeTable}

Files == {r.file : r \in NodeTable}

\* the file of the same-named property assignments
PropsFile == "P"

\* the files of the project of two files
ProjectFiles == Files \ {PropsFile}

NodeRec == [n \in Nodes |-> CHOOSE r \in NodeTable : r.id = n]

\* node.kind
Kind == [n \in Nodes |-> NodeRec[n].kind]

\* node.parent
Parent == [n \in Nodes |-> NodeRec[n].parent]

\* node.name.getText()
NameText == [n \in Nodes |-> NodeRec[n].name]

\* node.getSourceFile()
SourceFileOf == [n \in Nodes |-> NodeRec[n].file]

PropertyNames == {NameText[n] : n \in {m \in Nodes :
                     Kind[m] \in {"PropertyAssignment", "ShorthandPropertyAssignment"}}}

(***************************************************************************)
(* The identifiers of each file in the order visit() reaches them          *)
(* (ts.forEachChild: depth first, source order).                           *)
(* Ident(id, parent, isName, decls, range):                                *)
(*   parent  identifier.parent                                             *)
(*   isName  whether the identifier is parent.name                         *)
(*   decls   checker.getSymbolAtLocation(identifier).declarations (for the *)
(*           identifiers of RefIds the input refs gives them instead)      *)
(*   range   Range.fromNode(identifier).toLsif()                           *)
(***************************************************************************)
Ident(id, parent, isName, decls, range) ==
    [id |-> id, parent |-> parent, isName |-> isName, decls |-> decls, range |-> range]

\* the identifiers whose declarations are the input refs
RefIds == {"A#r", "B#r"}

Identifiers == [
    A |-> <<
        Ident("A#a",  "A.a",  TRUE,  <<"A.a">>,          <<0, 6, 7>>),
        Ident("A#o",  "A.o",  TRUE,  <<"A.o">>,          <<0, 13, 14>>),
        Ident("A#sh", "A.sh", TRUE,  <<"A.sh">>,         <<0, 20, 21>>),
        Ident("A#pa", "A.pa", TRUE,  <<"A.pa">>,         <<0, 27, 28>>),
        Ident("A#C",  "A.C",  TRUE,  <<"A.C">>,          <<1, 6, 7>>),
        Ident("A#q",  "A.q",  TRUE,  <<"A.q">>,          <<1, 22, 23>>),
        Ident("A#f",  "A.f",  TRUE,  <<"A.f">>,          <<2, 9, 10>>),
        Ident("A#v",  "A.v",  TRUE,  <<"A.v">>,          <<2, 23, 24>>),
        Ident("A#E",  "A.E",  TRUE,  <<"A.E">>,          <<3, 5, 6>>),
        Ident("A#M",  "A.M",  TRUE,  <<"A.M">>,          <<3, 9, 10>>),
        Ident("A#I1", "A.I1", TRUE,  <<"A.I1", "A.I2">>, <<4, 10, 11>>),
        Ident("A#I2", "A.I2", TRUE,  <<"A.I1", "A.I2">>, <<5, 10, 11>>),
        Ident("A#r",  "A.es", FALSE, <<>>,               <<6, 0, 2>>) >>,
    B |-> <<
        Ident("B#C",  "B.spec", TRUE, <<"B.spec">>,      <<0, 9, 10>>),
        Ident("B#r",  "B.es", FALSE, <<>>,               <<1, 0, 2>>),
        Ident("B#a",  "B.a",  TRUE,  <<"B.a">>,          <<2, 6, 7>>),
        Ident("B#o",  "B.o",  TRUE,  <<"B.o">>,          <<2, 13, 14>>),
        Ident("B#pb", "B.pb", TRUE,  <<"B.pb">>,         <<2, 19, 20>>) >> ]

\* the property assignments of file P named a, and the name identifier of each
SameNamed == <<"P.a01", "P.a02", "P.a03", "P.a04", "P.a05", "P.a06", "P.a07", "P.a08", "P.a09", "P.a10", "P.a11">>

OtherNamed == "P.b"

PropIdentId ==
    [n \in {SameNamed[k] : k \in 1..Len(SameNamed)} \cup {OtherNamed} |->
        CASE n = "P.a01" -> "P#a01"
          [] n = "P.a02" -> "P#a02"
          [] n = "P.a03" -> "P#a03"
          [] n = "P.a04" -> "P#a04"
          [] n = "P.a05" -> "P#a05"
          [] n = "P.a06" -> "P#a06"
          [] n = "P.a07" -> "P#a07"
          [] n = "P.a08" -> "P#a08"
          [] n = "P.a09" -> "P#a09"
          [] n = "P.a10" -> "P#a10"
          [] n = "P.a11" -> "P#a11"
          [] n = "P.b" -> "P#b"]

\* the name identifier of the k-th property of file P. The properties of one name
\* in the literal are the declarations of one symbol, in source order.
PropIdent(n, k) ==
    Ident(PropIdentId[n], n, TRUE,
          IF n = OtherNamed THEN <<n>> ELSE SelectSeq(layout, LAMBDA m : m # OtherNamed),
          <<0, 6 * k, 6 * k + Len(NameText[n])>>)

\* the layouts of file P: some properties named a, the one named a1, more named a
Layouts ==
    {SubSeq(SameNamed, 1, c[1]) \o <<OtherNamed>> \o SubSeq(SameNamed, c[1] + 1, c[1] + c[2]) :
        c \in {d \in (0..Len(SameNamed)) \X (0..Len(SameNamed)) :
                   d[1] + d[2] <= Len(SameNamed)}}

\* the identifiers of a file in the order visit() reaches them
identifiersOf(f) ==
    IF f = PropsFile THEN [k \in 1..Len(layout) |-> PropIdent(layout[k], k)]
    ELSE Identifiers[f]

\* a variant that gives the end column of the identifier before its start column
rangeOfEndFirst(identifier) ==
    <<identifier.range[1], identifier.range[3], identifier.range[2]>>

\* Range.fromNode(identifier).toLsif(): the positions of the identifier in the source
\* text, the start first
rangeOf(identifier) == identifier.range

\* the declarations the value symbol of the shorthand property may have
ValueChoices == {<<>>, <<"A.a">>, <<"A.a", "B.a">>, <<"A">>}

ShorthandNodes == {n \in Nodes : Kind[n] = "ShorthandPropertyAssignment"}

\* checker.getShorthandAssignmentValueSymbol(declaration).declarations
shorthandValueDeclarations(declaration) == values[declaration]

\* checker.getTypeAtLocation(node).symbol.declarations of an import specifier
AliasDeclarations == [n \in Nodes |-> IF n = "B.spec" THEN <<"A.C">> ELSE <<>>]

\* the declarations a free reference may resolve to (none: the identifier has no
\* symbol; an object literal is the declaration of the symbol of its type, a source
\* file that of its module)
RefChoices ==
    {<<>>, <<"A.v">>, <<"A.pa">>, <<"A.sh">>, <<"A.C">>, <<"A.q">>, <<"B.a">>, <<"B.pb">>,
     <<"B.spec">>, <<"A.l1">>, <<"A">>}

NoPackage == <<"-">>

PackageNames == {<<"p">>, <<"q">>}

(***************************************************************************)
(* LsifSymbol and Counter                                                  *)
(***************************************************************************)
\* no entry in a Map (Map.get returns undefined)
NoSym == [tag |-> "None", index |-> 0, chain |-> <<>>]

\* LsifSymbol.empty()
empty == [tag |-> "Empty", index |-> 0, chain |-> <<>>]

\* LsifSymbol.local(counter)
local(i) == [tag |-> "Local", index |-> i, chain |-> <<>>]

\* LsifSymbol.global(owner, descriptor)
global(owner, d) == [tag |-> "Global", index |-> 0, chain |-> Append(owner.chain, d)]

isEmpty(s) == s.tag = "Empty"

isLocal(s) == s.tag = "Local"

isGlobal(s) == s.tag = "Global"

RECURSIVE Decimal(_)
\* the decimal digits of a number, as a template literal renders it
Decimal(n) ==
    IF n < 0 THEN <<"-">> \o Decimal(0 - n)
    ELSE IF n < 10 THEN <<Digits[n + 1]>>
    ELSE Decimal(n \div 10) \o <<Digits[(n % 10) + 1]>>

LocalMarker == <<"l", "o", "c", "a", "l">>

RECURSIVE chainString(_)
chainString(chain) ==
    IF chain = <<>> THEN <<>>
    ELSE descriptorString(Head(chain)).str \o chainString(Tail(chain))

\* LsifSymbol.value: the symbol string
value(s) ==
    IF s.tag = "Local" THEN LocalMarker \o <<" ">> \o Decimal(s.index)
    ELSE IF s.tag = "Global" THEN chainString(s.chain)
    ELSE <<>>

\* new Counter()
NewCounter == -1

NoCounter == -2

\* Counter.next(): the counter's value after the call, which is also what it returns
next(n) == n + 1

\* Packages.symbol(fileName)
packagesSymbol(file) ==
    IF packages[file] = NoPackage THEN NoSym
    ELSE global(empty, packageDescriptor(packages[file]))

(***************************************************************************)
(* FileIndexer.  An indexer state ix is the record                         *)
(*   g    globalSymbolTable (shared)      l   localSymbolTable             *)
(*   lc   localCounter                    pc  propertyCounters             *)
(*   occ  document.occurrences            sym document.symbols             *)
(*   ret  history of lsifSymbol's results al  history of local indices     *)
(* and every method is an operator from ix to the ix after the call (and   *)
(* the value returned).                                                    *)
(***************************************************************************)
Result(ix, s) == [ix |-> ix, sym |-> s]

\* a return of lsifSymbol with result r, noted in the history
Return(r, node) ==
    Result([r.ix EXCEPT !.ret[node] = @ \cup {r.sym}], r.sym)

\* LsifSymbol.local(i) entered in the local table
setLocal(ix, node, i) ==
    Result([ix EXCEPT !.lc = i, !.l[node] = local(i), !.al = Append(@, i)], local(i))

\* a variant that hands out the counter's current value without advancing it
newLocalSymbolNoAdvance(ix, node) ==
    setLocal(ix, node, IF ix.lc < 0 THEN 0 ELSE ix.lc)

\* a variant that enters the new Local identity in the shared table as well
newLocalSymbolShared(ix, node) ==
    LET set == setLocal(ix, node, next(ix.lc))
    IN  Result([set.ix EXCEPT !.g[node] = set.sym], set.sym)

newLocalSymbol(ix, node) ==
    setLocal(ix, node, next(ix.lc))

cached(ix, node, symbol) ==
    Result([ix EXCEPT !.g[node] = symbol], symbol)

NoDescriptor == Descriptor(<<>>, "None")

isClassLike(node) == Kind[node] \in {"ClassDeclaration", "ClassExpression"}

ConstructorName == <<"<", "c", "o", "n", "s", "t", "r", "u", "c", "t", "o", "r", ">">>

\* a variant that names a constructor after its class
descriptorCtorByClass(node) ==
    IF Kind[node] \in {"InterfaceDeclaration", "EnumDeclaration"}
        THEN typeDescriptor(NameText[node])
    ELSE IF isClassLike(node) /\ NameText[node] # <<>>
        THEN typeDescriptor(NameText[node])
    ELSE IF /\ Kind[node] \in {"FunctionDeclaration", "MethodSignature", "MethodDeclaration"}
            /\ NameText[node] # <<>>
        THEN methodDescriptor(NameText[node])
    ELSE IF Kind[node] = "Constructor"
        THEN methodDescriptor(NameText[Parent[node]])
    ELSE IF Kind[node] \in {"PropertyDeclaration", "PropertySignature", "EnumMember",
                            "VariableDeclaration"}
        THEN termDescriptor(NameText[node])
    ELSE IF Kind[node] = "ModuleDeclaration" THEN packageDescriptor(NameText[node])
    ELSE IF Kind[node] = "Parameter" THEN parameterDescriptor(NameText[node])
    ELSE IF Kind[node] = "TypeParameter" THEN typeParameterDescriptor(NameText[node])
    ELSE NoDescriptor

descriptor(node) ==
    IF Kind[node] \in {"InterfaceDeclaration", "EnumDeclaration"}
        THEN typeDescriptor(NameText[node])
    ELSE IF isClassLike(node) /\ NameText[node] # <<>>
        THEN typeDescriptor(NameText[node])
    ELSE IF /\ Kind[node] \in {"FunctionDeclaration", "MethodSignature", "MethodDeclaration"}
            /\ NameText[node] # <<>>
        THEN methodDescriptor(NameText[node])
    ELSE IF Kind[node] = "Constructor"
        THEN methodDescriptor(ConstructorName)
    ELSE IF Kind[node] \in {"PropertyDeclaration", "PropertySignature", "EnumMember",
                            "VariableDeclaration"}
        THEN termDescriptor(NameText[node])
    ELSE IF Kind[node] = "ModuleDeclaration" THEN packageDescriptor(NameText[node])
    ELSE IF Kind[node] = "Parameter" THEN parameterDescriptor(NameText[node])
    ELSE IF Kind[node] = "TypeParameter" THEN typeParameterDescriptor(NameText[node])
    ELSE NoDescriptor

isAnonymousContainerOfSymbols(node) ==
    Kind[node] \in {"ModuleBlock", "ImportDeclaration", "ImportClause", "NamedImports",
                    "VariableStatement", "VariableDeclarationList"}

RECURSIVE lsifSymbol(_, _)

\* the file root: lines 159-165
sourceFileSymbol(ix, node, package_) ==
    cached(ix, node, IF package_ = NoSym THEN empty ELSE package_)

\* propertyCounters.get(name), creating the counter when there is none: lines 171-175
withCounter(ix, name) ==
    IF ix.pc[name] = NoCounter THEN [ix EXCEPT !.pc[name] = NewCounter] ELSE ix

\* lines 176-182, given the result of lsifSymbol(node.getSourceFile())
metaSymbol(file, node, name, n) ==
    cached([file.ix EXCEPT !.pc[name] = n], node,
           global(file.sym, metaDescriptor(name \o Decimal(n))))

\* an object-literal property: lines 166-183
propertySymbol(file, node) ==
    metaSymbol(file, node, NameText[node], next(file.ix.pc[NameText[node]]))

\* a variant without the fallback: a node without a descriptor gets no identity
describedSymbolNoFallback(o, node, d) ==
    IF d # NoDescriptor THEN cached(o.ix, node, global(o.sym, d))
    ELSE Result(o.ix, NoSym)

\* a variant that forgets the owner of a described node
describedSymbolNoOwner(o, node, d) ==
    IF d # NoDescriptor THEN cached(o.ix, node, global(empty, d))
    ELSE newLocalSymbol(o.ix, node)

\* lines 199-208, given the result o of lsifSymbol(node.parent)
describedSymbol(o, node, d) ==
    IF d # NoDescriptor THEN cached(o.ix, node, global(o.sym, d))
    ELSE newLocalSymbol(o.ix, node)

\* line 190, given the result of the second lsifSymbol(node.parent)
inherited(again, node) == cached(again.ix, node, again.sym)

\* a variant that treats an import specifier as any other node
ownedSymbolNoAlias(o, node) ==
    IF isEmpty(o.sym) \/ isLocal(o.sym) THEN newLocalSymbol(o.ix, node)
    ELSE IF isAnonymousContainerOfSymbols(node)
        THEN inherited(lsifSymbol(o.ix, Parent[node]), node)
    ELSE describedSymbol(o, node, descriptor(node))

\* lines 185-208, given the result o of lsifSymbol(node.parent)
ownedSymbol(o, node) ==
    IF isEmpty(o.sym) \/ isLocal(o.sym) THEN newLocalSymbol(o.ix, node)
    ELSE IF isAnonymousContainerOfSymbols(node)
        THEN inherited(lsifSymbol(o.ix, Parent[node]), node)
    ELSE IF Kind[node] = "ImportSpecifier" /\ AliasDeclarations[node] # <<>>
        THEN lsifSymbol(o.ix, AliasDeclarations[node][1])
    ELSE describedSymbol(o, node, descriptor(node))

\* a variant in which a block passes its owner's identity through
computedSymbolBlockTransparent(ix, node) ==
    IF Kind[node] = "Block" THEN inherited(lsifSymbol(ix, Parent[node]), node)
    ELSE IF Kind[node] = "SourceFile"
        THEN sourceFileSymbol(ix, node, packagesSymbol(SourceFileOf[node]))
    ELSE IF Kind[node] \in {"PropertyAssignment", "ShorthandPropertyAssignment"}
        THEN propertySymbol(
                 lsifSymbol(withCounter(ix, NameText[node]), SourceFileOf[node]), node)
    ELSE ownedSymbol(lsifSymbol(ix, Parent[node]), node)

\* a variant that records the Empty identity of a block in the shared table
computedSymbolBlockCached(ix, node) ==
    IF Kind[node] = "Block" THEN cached(ix, node, empty)
    ELSE IF Kind[node] = "SourceFile"
        THEN sourceFileSymbol(ix, node, packagesSymbol(SourceFileOf[node]))
    ELSE IF Kind[node] \in {"PropertyAssignment", "ShorthandPropertyAssignment"}
        THEN propertySymbol(
                 lsifSymbol(withCounter(ix, NameText[node]), SourceFileOf[node]), node)
    ELSE ownedSymbol(lsifSymbol(ix, Parent[node]), node)

\* lines 156-208: the cache has no entry for node
computedSymbol(ix, node) ==
    IF Kind[node] = "Block" THEN Result(ix, empty)
    ELSE IF Kind[node] = "SourceFile"
        THEN sourceFileSymbol(ix, node, packagesSymbol(SourceFileOf[node]))
    ELSE IF Kind[node] \in {"PropertyAssignment", "ShorthandPropertyAssignment"}
        THEN propertySymbol(
                 lsifSymbol(withCounter(ix, NameText[node]), SourceFileOf[node]), node)
    ELSE ownedSymbol(lsifSymbol(ix, Parent[node]), node)

\* globalSymbolTable.get(node) || localSymbolTable.get(node)
fromCache(ix, node) ==
    IF ix.g[node] # NoSym THEN ix.g[node] ELSE ix.l[node]

lsifSymbol(ix, node) ==
    IF fromCache(ix, node) # NoSym THEN Return(Result(ix, fromCache(ix, node)), node)
    ELSE Return(computedSymbol(ix, node), node)

\* lsiftyped.SymbolRole.Definition
Definition == 1

Occurrence(range, symbol, roles) ==
    [range |-> range, symbol |-> symbol, symbol_roles |-> roles]

\* The documentation strings come from the type checker; the model keeps the
\* identifier they are computed from.
SymbolInformation(symbol, identifier) ==
    [symbol |-> symbol, documentation |-> <<identifier>>, relationships |-> <<>>]

AllIdentifiers ==
    UNION {{Identifiers[f][i] : i \in 1..Len(Identifiers[f])} : f \in ProjectFiles}
    \cup {PropIdent(n, k) : n \in DOMAIN PropIdentId, k \in 1..(Len(SameNamed) + 1)}

\* node.name, for a node that has a name child
NameChild(node) ==
    IF \E i \in AllIdentifiers : i.parent = node /\ i.isName
    THEN (CHOOSE i \in AllIdentifiers : i.parent = node /\ i.isName).id
    ELSE NoNode

DeclarationNameKinds ==
    {"EnumDeclaration", "VariableDeclaration", "PropertyDeclaration", "MethodSignature",
     "MethodDeclaration", "PropertySignature", "FunctionDeclaration", "ModuleDeclaration",
     "PropertyAssignment", "ShorthandPropertyAssignment", "Parameter", "TypeParameter",
     "InterfaceDeclaration"}

declarationName(node) ==
    IF Kind[node] \in DeclarationNameKinds THEN NameChild(node) ELSE NoNode

addSymbolInformation(ix, identifier, symbol) ==
    [ix EXCEPT !.sym = Append(@, SymbolInformation(value(symbol), identifier.id))]

\* document.occurrences.push(new Occurrence({range, symbol, symbol_roles}))
pushOccurrence(ix, range, symbol, roles) ==
    [ix EXCEPT !.occ = Append(@, Occurrence(range, value(symbol), roles))]

\* lines 97-106: one declaration of the value symbol, r its lsifSymbol
shorthandStep(r, range) ==
    IF isEmpty(r.sym) THEN r.ix ELSE pushOccurrence(r.ix, range, r.sym, 0)

RECURSIVE shorthandLoop(_, _, _, _)
\* the loop over valueSymbol.declarations, from its k-th element on
shorthandLoop(ix, decls, k, range) ==
    IF k > Len(decls) THEN ix
    ELSE shorthandLoop(shorthandStep(lsifSymbol(ix, decls[k]), range), decls, k + 1, range)

\* a variant that takes a shorthand property for a plain one
handleShorthandPropertyDefinitionNone(ix, declaration, range) == ix

handleShorthandPropertyDefinition(ix, declaration, range) ==
    IF Kind[declaration] = "ShorthandPropertyAssignment"
    THEN shorthandLoop(ix, shorthandValueDeclarations(declaration), 1, range)
    ELSE ix

\* sym.declarations of an identifier
Declarations(identifier) ==
    IF identifier.id \in RefIds THEN refs[identifier.id] ELSE identifier.decls

\* a variant that adds no SymbolInformation for a definition
definitionStepNoInformation(pushed, identifier, declaration, symbol) ==
    handleShorthandPropertyDefinition(pushed, declaration, rangeOf(identifier))

\* lines 67-70, after the occurrence is pushed
definitionStep(pushed, identifier, declaration, symbol) ==
    handleShorthandPropertyDefinition(
        addSymbolInformation(pushed, identifier, symbol), declaration, rangeOf(identifier))

\* lines 55-70: one declaration of the symbol, r its lsifSymbol
visitStep(r, identifier, declaration, isDefinition) ==
    IF isEmpty(r.sym) THEN r.ix
    ELSE IF isDefinition
        THEN definitionStep(pushOccurrence(r.ix, rangeOf(identifier), r.sym, Definition),
                            identifier, declaration, r.sym)
    ELSE pushOccurrence(r.ix, rangeOf(identifier), r.sym, 0)

RECURSIVE visitLoop(_, _, _, _, _)
\* the loop over sym.declarations, from its k-th element on
visitLoop(ix, identifier, decls, k, isDefinition) ==
    IF k > Len(decls) THEN ix
    ELSE visitLoop(visitStep(lsifSymbol(ix, decls[k]), identifier, decls[k], isDefinition),
                   identifier, decls, k + 1, isDefinition)

visitIdentifier(ix, identifier) ==
    visitLoop(ix, identifier, Declarations(identifier), 1,
              declarationName(identifier.parent) = identifier.id)

(***************************************************************************)
(* One indexing run: a FileIndexer per file, one file after the other, all *)
(* sharing one globalSymbolTable.                                          *)
(***************************************************************************)
NoTable == [n \in Nodes |-> NoSym]

NoCounters == [name \in PropertyNames |-> NoCounter]

NoDocument == [occurrences |-> <<>>, symbols |-> <<>>]

NoVisit == [id |-> NoNode, file |-> NoFile, occ |-> <<>>, sym |-> <<>>]

\* the FileIndexer of file f as an indexer state
Indexer(f) ==
    [g |-> globalSymbolTable, l |-> localSymbolTable[f], lc |-> localCounter[f],
     pc |-> propertyCounters[f], occ |-> document[f].occurrences,
     sym |-> document[f].symbols, ret |-> returned, al |-> allocated[f]]

\* new FileIndexer(...) with a new Document, given the shared table
NewIndexer(g, ret) ==
    [g |-> g, l |-> NoTable, lc |-> NewCounter, pc |-> NoCounters, occ |-> <<>>,
     sym |-> <<>>, ret |-> ret, al |-> <<>>]

NotRendered == [ok |-> FALSE, str |-> <<"?">>]

NotFormatted == [ok |-> FALSE, shown |-> -1, lines |-> <<>>]

NoDesc == Descriptor(<<>>, "None")

\* the state of a run before its first FileIndexer is constructed
RunStart ==
    /\ order = <<>>
    /\ cur = NoFile
    /\ pos = 0
    /\ globalSymbolTable = NoTable
    /\ localCounter = [f \in Files |-> NewCounter]
    /\ propertyCounters = [f \in Files |-> NoCounters]
    /\ localSymbolTable = [f \in Files |-> NoTable]
    /\ document = [f \in Files |-> NoDocument]
    /\ returned = [n \in Nodes |-> {}]
    /\ allocated = [f \in Files |-> <<>>]
    /\ lastVisit = NoVisit
    /\ snapshot = [f \in Files |-> NotFormatted]

\* the packages of the files of a run: a file outside the run is in none
PackageChoices(files) ==
    {c \in [Files -> PackageNames \cup {NoPackage}] :
        \A f \in Files \ files : c[f] = NoPackage}

\* the inputs of a run over the project of two files
ProjectInputs ==
    /\ packages \in PackageChoices(ProjectFiles)
    /\ refs \in [RefIds -> RefChoices]
    /\ values \in [ShorthandNodes -> ValueChoices]
    /\ layout = <<>>
    /\ todo = ProjectFiles

InitRun ==
    /\ ProjectInputs
    /\ RunStart

Init ==
    /\ InitRun
    /\ desc = NoDesc
    /\ escaped = NotRendered
    /\ rendered = NotRendered

Indexed == {order[i] : i \in 1..Len(order)}

\* new FileIndexer(checker, input, document, globalSymbolTable, packages, sourceFile)
\* followed by the call of index()
Construct(f) ==
    /\ cur = NoFile
    /\ f \in todo \ Indexed
    /\ cur' = f
    /\ pos' = 0
    /\ localCounter' = [localCounter EXCEPT ![f] = NewCounter]
    /\ propertyCounters' = [propertyCounters EXCEPT ![f] = NoCounters]
    /\ localSymbolTable' = [localSymbolTable EXCEPT ![f] = NoTable]
    /\ document' = [document EXCEPT ![f] = NoDocument]
    /\ allocated' = [allocated EXCEPT ![f] = <<>>]
    /\ UNCHANGED <<inputVars, todo, order, globalSymbolTable, returned, lastVisit, snapshot>>

\* the fields of the FileIndexer of cur after a call that leaves it as ix
Store(ix, identifier) ==
    /\ globalSymbolTable' = ix.g
    /\ localSymbolTable' = [localSymbolTable EXCEPT ![cur] = ix.l]
    /\ localCounter' = [localCounter EXCEPT ![cur] = ix.lc]
    /\ propertyCounters' = [propertyCounters EXCEPT ![cur] = ix.pc]
    /\ document' = [document EXCEPT ![cur] = [occurrences |-> ix.occ, symbols |-> ix.sym]]
    /\ returned' = ix.ret
    /\ allocated' = [allocated EXCEPT ![cur] = ix.al]
    /\ lastVisit' = [id |-> identifier.id, file |-> cur,
                     occ |-> SubSeq(ix.occ, Len(document[cur].occurrences) + 1, Len(ix.occ)),
                     sym |-> SubSeq(ix.sym, Len(document[cur].symbols) + 1, Len(ix.sym))]

\* visit(node) reaching the next identifier of the file
Visit ==
    /\ cur # NoFile
    /\ pos < Len(identifiersOf(cur))
    /\ Store(visitIdentifier(Indexer(cur), identifiersOf(cur)[pos + 1]),
             identifiersOf(cur)[pos + 1])
    /\ pos' = pos + 1
    /\ UNCHANGED <<inputVars, todo, order, cur, snapshot>>

\* index() returns
IndexReturn ==
    /\ cur # NoFile
    /\ pos = Len(identifiersOf(cur))
    /\ order' = Append(order, cur)
    /\ cur' = NoFile
    /\ pos' = 0
    /\ UNCHANGED <<inputVars, todo, globalSymbolTable, localCounter, propertyCounters,
                   localSymbolTable, document, returned, allocated, lastVisit, snapshot>>

Next ==
    \/ (\E f \in Files : Construct(f)) /\ UNCHANGED codecVars
    \/ Visit /\ UNCHANGED codecVars
    \/ IndexReturn /\ UNCHANGED codecVars

Spec == Init /\ [][Next]_vars

RECURSIVE indexFrom(_, _, _)
\* visit(sourceFile): the identifiers of file f from the k-th on
\* (the test on the counter has the step evaluated before the next one starts)
indexFrom(ix, f, k) ==
    IF k > Len(identifiersOf(f)) THEN ix
    ELSE LET after == visitIdentifier(ix, identifiersOf(f)[k])
         IN IF after.lc >= NewCounter THEN indexFrom(after, f, k + 1) ELSE after

\* new FileIndexer(..., globalSymbolTable, ...).index() for file f
index(g, f) == indexFrom(NewIndexer(g, [n \in Nodes |-> {}]), f, 1)

RECURSIVE runFrom(_, _, _)
\* the shared table after the files of the sequence are indexed, from the k-th on
runFrom(g, files, k) ==
    IF k > Len(files) THEN g
    ELSE LET after == index(g, files[k]).g
         IN IF after # NoTable THEN runFrom(after, files, k + 1) ELSE after

\* the shared table after a run that indexes the files in the given order
Run(files) == runFrom(NoTable, files, 1)

\* the orders in which a set of files can be indexed
Orders(S) ==
    {o \in [1..Cardinality(S) -> S] : \A i, j \in 1..Cardinality(S) : o[i] = o[j] => i = j}

\* the entry the FileIndexer of file f finds for a node in its caches
Identity(f, node) ==
    IF globalSymbolTable[node] # NoSym THEN globalSymbolTable[node]
    ELSE localSymbolTable[f][node]

RunDone == cur = NoFile /\ Indexed = todo /\ todo # {}

(***************************************************************************)
(* formatSnapshot(input, doc) on the Document of a file whose index() has  *)
(* returned.  The lines of the fixture hold no format-options line, so     *)
(* parseOptions answers its defaults and no documentation is written.      *)
(***************************************************************************)
\* input.lines.length
LineCount == [f \in Files |-> IF f = "A" THEN 7 ELSE IF f = "B" THEN 3 ELSE 1]

Position(line, character) == [line |-> line, character |-> character]

\* Range.fromLsif(range): three numbers for a range on one line, four otherwise
fromLsif(range) ==
    IF Len(range) = 3
    THEN [start |-> Position(range[1], range[2]), end |-> Position(range[1], range[3])]
    ELSE [start |-> Position(range[1], range[2]), end |-> Position(range[3], range[4])]

\* Position.compare
comparePosition(a, b) ==
    IF a.line # b.line THEN a.line - b.line ELSE a.character - b.character

\* Range.compare: by start, then by end
compare(a, b) ==
    IF comparePosition(a.start, b.start) # 0 THEN comparePosition(a.start, b.start)
    ELSE comparePosition(a.end, b.end)

occurrencesByLine(a, b) == compare(fromLsif(a.range), fromLsif(b.range))

RECURSIVE insertOccurrence(_, _)
\* the sorted sequence with one more element, behind the elements it equals
insertOccurrence(sorted, o) ==
    IF sorted = <<>> THEN <<o>>
    ELSE IF occurrencesByLine(sorted[Len(sorted)], o) <= 0 THEN Append(sorted, o)
    ELSE Append(insertOccurrence(SubSeq(sorted, 1, Len(sorted) - 1), o), sorted[Len(sorted)])

RECURSIVE sortOccurrencesFrom(_, _, _)
sortOccurrencesFrom(sorted, occurrences, k) ==
    IF k > Len(occurrences) THEN sorted
    ELSE sortOccurrencesFrom(insertOccurrence(sorted, occurrences[k]), occurrences, k + 1)

\* doc.occurrences.sort(occurrencesByLine): Array.prototype.sort is stable
sortOccurrences(occurrences) == sortOccurrencesFrom(<<>>, occurrences, 1)

LowerCase ==
    <<"a", "b", "c", "d", "e", "f", "g", "h", "i", "j", "k", "l", "m", "n", "o", "p", "q",
      "r", "s", "t", "u", "v", "w", "x", "y", "z">>

UpperCase ==
    <<"A", "B", "C", "D", "E", "F", "G", "H", "I", "J", "K", "L", "M", "N", "O", "P", "Q",
      "R", "S", "T", "U", "V", "W", "X", "Y", "Z">>

\* the characters with a place of their own on the first level of
\* String.prototype.localeCompare (the root collation), in its order: the white
\* space, the punctuation, the symbols, the currency sign, the digits, the letters
\* without their case
Collation ==
    <<"\t", "\n", "\f", "\r", " ", "_", "-", ",", ";", ":", "!", "?", ".", "'", "\"", "(", ")",
      "[", "]", "{", "}", "@", "*", "/", "\\", "&", "#", "%", Backtick, "^", "+", "<", "=", ">",
      "|", "~", "$">>
    \o Digits \o LowerCase

\* the letters with a mark, each with the letter it is a variant of, grouped by the
\* mark in the order of the marks on the second level
Accented ==
    <<
      (* acute *)
      <<<<"á", "a">>, <<"é", "e">>, <<"í", "i">>, <<"ó", "o">>, <<"ú", "u">>,
        <<"ý", "y">>, <<"Á", "A">>, <<"É", "E">>, <<"Í", "I">>, <<"Ó", "O">>,
        <<"Ú", "U">>, <<"Ý", "Y">>>>,
      (* grave *)
      <<<<"à", "a">>, <<"è", "e">>, <<"ì", "i">>, <<"ò", "o">>, <<"ù", "u">>,
        <<"À", "A">>, <<"È", "E">>, <<"Ì", "I">>, <<"Ò", "O">>, <<"Ù", "U">>>>,
      (* circumflex *)
      <<<<"â", "a">>, <<"ê", "e">>, <<"î", "i">>, <<"ô", "o">>, <<"û", "u">>,
        <<"Â", "A">>, <<"Ê", "E">>, <<"Î", "I">>, <<"Ô", "O">>, <<"Û", "U">>>>,
      (* ring *)
      <<<<"å", "a">>, <<"Å", "A">>>>,
      (* diaeresis *)
      <<<<"ä", "a">>, <<"ë", "e">>, <<"ï", "i">>, <<"ö", "o">>, <<"ü", "u">>,
        <<"ÿ", "y">>, <<"Ä", "A">>, <<"Ë", "E">>, <<"Ï", "I">>, <<"Ö", "O">>,
        <<"Ü", "U">>>>,
      (* tilde *)
      <<<<"ã", "a">>, <<"ñ", "n">>, <<"õ", "o">>, <<"Ã", "A">>, <<"Ñ", "N">>,
        <<"Õ", "O">>>>,
      (* cedilla *)
      <<<<"ç", "c">>, <<"Ç", "C">>>>
    >>

\* the letter a character is compared as on the first level and on the level of case
Base(c) ==
    IF \E k \in 1..Len(Accented) : \E i \in 1..Len(Accented[k]) : Accented[k][i][1] = c
    THEN LET k == CHOOSE g \in 1..Len(Accented) :
                      \E i \in 1..Len(Accented[g]) : Accented[g][i][1] = c
         IN  Accented[k][CHOOSE i \in 1..Len(Accented[k]) : Accented[k][i][1] = c][2]
    ELSE c

\* the weight of a character on the first level: a letter with a mark has the weight
\* of its letter, and a capital letter the weight of its small letter. The characters
\* of Collation, UpperCase and Accented are the ones it is defined for.
Rank(c) ==
    LET folded == IF \E i \in 1..Len(UpperCase) : UpperCase[i] = Base(c)
                  THEN LowerCase[CHOOSE i \in 1..Len(UpperCase) : UpperCase[i] = Base(c)]
                  ELSE Base(c)
    IN  CHOOSE i \in 1..Len(Collation) : Collation[i] = folded

\* the weight of a character on the second level: no mark before any mark
AccentRank(c) ==
    IF \E k \in 1..Len(Accented) : \E i \in 1..Len(Accented[k]) : Accented[k][i][1] = c
    THEN CHOOSE k \in 1..Len(Accented) : \E i \in 1..Len(Accented[k]) : Accented[k][i][1] = c
    ELSE 0

\* the weight of a character on the level of case: small before capital
CaseRank(c) == IF \E i \in 1..Len(UpperCase) : UpperCase[i] = Base(c) THEN 1 ELSE 0

\* the order of two sequences of weights: -1, 0 or 1 by the first difference, a
\* proper prefix first
compareWeights(ka, kb) ==
    LET differing == {i \in 1..Len(ka) : i <= Len(kb) /\ ka[i] # kb[i]}
    IN  IF differing # {}
        THEN LET i == CHOOSE d \in differing : \A e \in differing : d <= e
             IN  IF ka[i] < kb[i] THEN -1 ELSE 1
        ELSE IF Len(ka) < Len(kb) THEN -1
        ELSE IF Len(ka) > Len(kb) THEN 1
        ELSE 0

\* a.localeCompare(b): the strings are compared on the first level throughout, strings
\* equal on it by their marks throughout, and strings equal in both by case
localeCompare(a, b) ==
    IF compareWeights([i \in 1..Len(a) |-> Rank(a[i])], [i \in 1..Len(b) |-> Rank(b[i])]) # 0
    THEN compareWeights([i \in 1..Len(a) |-> Rank(a[i])], [i \in 1..Len(b) |-> Rank(b[i])])
    ELSE IF compareWeights([i \in 1..Len(a) |-> AccentRank(a[i])],
                           [i \in 1..Len(b) |-> AccentRank(b[i])]) # 0
    THEN compareWeights([i \in 1..Len(a) |-> AccentRank(a[i])],
                        [i \in 1..Len(b) |-> AccentRank(b[i])])
    ELSE compareWeights([i \in 1..Len(a) |-> CaseRank(a[i])],
                        [i \in 1..Len(b) |-> CaseRank(b[i])])

RECURSIVE insertRelationship(_, _)
insertRelationship(sorted, r) ==
    IF sorted = <<>> THEN <<r>>
    ELSE IF localeCompare(sorted[Len(sorted)].symbol, r.symbol) <= 0 THEN Append(sorted, r)
    ELSE Append(insertRelationship(SubSeq(sorted, 1, Len(sorted) - 1), r), sorted[Len(sorted)])

RECURSIVE sortRelationshipsFrom(_, _, _)
sortRelationshipsFrom(sorted, relationships, k) ==
    IF k > Len(relationships) THEN sorted
    ELSE sortRelationshipsFrom(insertRelationship(sorted, relationships[k]), relationships, k + 1)

\* relationships.sort((a, b) => a.symbol.localeCompare(b.symbol))
sortRelationships(relationships) == sortRelationshipsFrom(<<>>, relationships, 1)

isDefinitionOccurrence(occurrence) == occurrence.symbol_roles % 2 = 1

\* symbolsWithDefinitions: lines 70-80
symbolsWithDefinitions(occurrences) ==
    {occurrences[i].symbol : i \in {j \in 1..Len(occurrences) :
                                       isDefinitionOccurrence(occurrences[j])}}

\* symbolTable.get(symbol): the index of the last entry of doc.symbols for the symbol, or 0
infoIndex(symbols, symbol) ==
    IF \E i \in 1..Len(symbols) : symbols[i].symbol = symbol
    THEN CHOOSE i \in 1..Len(symbols) :
             /\ symbols[i].symbol = symbol
             /\ \A j \in (i + 1)..Len(symbols) : symbols[j].symbol # symbol
    ELSE 0

(***************************************************************************)
(* The state of one call of formatSnapshot:                                *)
(*   occ, sym   doc.occurrences and doc.symbols                            *)
(*   ext        externalSymbols                                            *)
(*   idx        occurrenceIndex                                            *)
(*   emitted    emittedDocstrings                                          *)
(*   shown      the number of occurrences written to out                   *)
(*   lines      the numbers of the input lines written to out, in order    *)
(*   threw      whether an error was thrown                                *)
(***************************************************************************)
\* lines 150-161: pushOneRelationship on the entry of externalSymbols for the symbol
\* if there is one, and otherwise on the entry of doc.symbols, if there is one
sortInfo(fs, symbol) ==
    IF infoIndex(fs.ext, symbol) # 0
    THEN [fs EXCEPT !.ext[infoIndex(fs.ext, symbol)].relationships = sortRelationships(@)]
    ELSE IF infoIndex(fs.sym, symbol) # 0
    THEN [fs EXCEPT !.sym[infoIndex(fs.sym, symbol)].relationships = sortRelationships(@)]
    ELSE fs

\* pushDoc(range, symbol, isDefinition, isStartOfLine): lines 83-163
pushDoc(fs, occurrence) ==
    IF occurrence.symbol \in fs.emitted THEN fs
    ELSE IF /\ ~isDefinitionOccurrence(occurrence)
            /\ occurrence.symbol \in symbolsWithDefinitions(fs.occ)
        THEN fs
    ELSE sortInfo([fs EXCEPT !.emitted = @ \cup {occurrence.symbol}], occurrence.symbol)

written(fs, occurrence) == pushDoc([fs EXCEPT !.shown = @ + 1], occurrence)

thrown(fs) == [fs EXCEPT !.threw = TRUE]

\* lines 171-190: the item written above the first line
fileItem(fs) ==
    IF fs.idx # 0 THEN fs
    ELSE IF Len(fs.occ) = 0 THEN thrown(fs)
    ELSE IF /\ fromLsif(fs.occ[1].range).start.character = 0
            /\ fromLsif(fs.occ[1].range).end.character = 0
        THEN written([fs EXCEPT !.idx = 1], fs.occ[1])
    ELSE fs

\* range.end.character - range.start.character - modifier: lines 213-223
caretLength(range) ==
    range.end.character - range.start.character
        - (IF range.start.character = 0 THEN 1 ELSE 0)

\* lines 199-236: one occurrence of the line, the index already advanced
lineItem(fs, occurrence) ==
    IF Len(occurrence.range) > 3 THEN thrown(fs)
    ELSE IF /\ fromLsif(occurrence.range).start.character # 0
            /\ fromLsif(occurrence.range).start.character - 2 < 0
        THEN thrown(fs)
    ELSE IF caretLength(fromLsif(occurrence.range)) < 0 THEN thrown(fs)
    ELSE written(fs, occurrence)

RECURSIVE lineItems(_, _)
\* the while loop of lines 195-237 for one line
lineItems(fs, lineNumber) ==
    IF fs.threw \/ fs.idx >= Len(fs.occ) THEN fs
    ELSE IF fs.occ[fs.idx + 1].range[1] # lineNumber THEN fs
    ELSE lineItems(lineItem([fs EXCEPT !.idx = @ + 1], fs.occ[fs.idx + 1]), lineNumber)

\* one turn of the loop over input.lines
formatLine(fs, lineNumber) ==
    IF fs.threw THEN fs
    ELSE lineItems([fs EXCEPT !.lines = Append(@, lineNumber)], lineNumber)

RECURSIVE formatLines(_, _, _)
\* the loop over input.lines: lines 168-238
formatLines(fs, lineNumber, lineCount) ==
    IF lineNumber >= lineCount \/ fs.threw THEN fs
    ELSE formatLines(formatLine(fileItem(fs), lineNumber), lineNumber + 1, lineCount)

\* a variant that sorts the occurrences from the last position to the first
formatSnapshotDescending(doc, lineCount, externalSymbols) ==
    formatLines([occ |-> [i \in 1..Len(doc.occurrences) |->
                             sortOccurrences(doc.occurrences)[Len(doc.occurrences) + 1 - i]],
                 sym |-> doc.symbols, ext |-> externalSymbols,
                 idx |-> 0, emitted |-> {}, shown |-> 0,
                 lines |-> <<>>, threw |-> FALSE],
                0, lineCount)

\* formatSnapshot(input, doc, externalSymbols): the document and the external
\* entries it leaves, and what it returned
formatSnapshot(doc, lineCount, externalSymbols) ==
    formatLines([occ |-> sortOccurrences(doc.occurrences), sym |-> doc.symbols,
                 ext |-> externalSymbols, idx |-> 0,
                 emitted |-> {}, shown |-> 0, lines |-> <<>>, threw |-> FALSE],
                0, lineCount)

Formatted(fs) == [ok |-> ~fs.threw, shown |-> fs.shown, lines |-> fs.lines]

\* the fields a call of formatSnapshot for file f leaves
Snapshotted(f, fs) ==
    /\ document' = [document EXCEPT ![f] = [occurrences |-> fs.occ, symbols |-> fs.sym]]
    /\ snapshot' = [snapshot EXCEPT ![f] = Formatted(fs)]

\* the entry of a symbol with three relationships, the last in the order of
\* localeCompare first and the first of them last
FormatInformation ==
    [SymbolInformation(<<"x">>, NoNode)
        EXCEPT !.relationships = <<[symbol |-> <<"c", "v">>], [symbol |-> <<"c", "á">>],
                                   [symbol |-> <<"C", "a">>]>>]

\* formatSnapshot(input, doc, externalSymbols) for a file whose index() has returned;
\* externalSymbols is empty, which is the default, or holds the entry of a symbol
Snapshot(f) ==
    /\ cur = NoFile
    /\ f \in Indexed
    /\ snapshot[f] = NotFormatted
    /\ \E externalSymbols \in {<<>>, <<FormatInformation>>} :
           Snapshotted(f, formatSnapshot(document[f], LineCount[f], externalSymbols))
    /\ UNCHANGED <<inputVars, todo, order, cur, pos, globalSymbolTable, localCounter,
                   propertyCounters, localSymbolTable, returned, allocated, lastVisit>>

\* the inputs of the run of SpecSnapshot: the files are in package p or in none
InitSnapshot ==
    /\ packages \in {c \in PackageChoices(ProjectFiles) : \A f \in Files : c[f] # <<"q">>}
    /\ refs \in [RefIds -> RefChoices]
    /\ values \in [ShorthandNodes -> ValueChoices]
    /\ layout = <<>>
    /\ todo = ProjectFiles
    /\ RunStart
    /\ desc = NoDesc
    /\ escaped = NotRendered
    /\ rendered = NotRendered

NextSnapshot ==
    \/ (\E f \in Files : Construct(f)) /\ UNCHANGED codecVars
    \/ Visit /\ UNCHANGED codecVars
    \/ IndexReturn /\ UNCHANGED codecVars
    \/ (\E f \in Files : Snapshot(f)) /\ UNCHANGED codecVars

SpecSnapshot == InitSnapshot /\ [][NextSnapshot]_vars

(***************************************************************************)
(* formatSnapshot on its own: a Document is drawn for the input of file    *)
(* FormatFile, and formatSnapshot is applied to it.                        *)
(***************************************************************************)
FormatFile == "B"

MaxOccurrences == 2

MaxColumn == 2

FormatSymbols == {<<"x">>}

\* the occurrences with a range of one line of the input whose start column is not
\* greater than its end column
SingleLineOccurrences(lineCount) ==
    {Occurrence(<<r[1], r[2], r[3]>>, symbol, roles) :
        r \in {t \in (0..(lineCount - 1)) \X (0..MaxColumn) \X (0..MaxColumn) : t[2] <= t[3]},
        symbol \in FormatSymbols,
        roles \in {0, Definition}}

\* the Documents of at most MaxOccurrences such occurrences, in any order, with no
\* entry in symbols or with the entry of the symbol
DocumentsFor(lineCount) ==
    {[occurrences |-> occurrences, symbols |-> symbols] :
        occurrences \in UNION {[1..n -> SingleLineOccurrences(lineCount)] :
                                  n \in 0..MaxOccurrences},
        symbols \in {<<>>, <<FormatInformation>>}}

InitFormat ==
    /\ packages = [f \in Files |-> NoPackage]
    /\ refs = [r \in RefIds |-> <<>>]
    /\ values = [n \in ShorthandNodes |-> <<>>]
    /\ layout = <<>>
    /\ todo = {FormatFile}
    /\ order = <<FormatFile>>
    /\ cur = NoFile
    /\ pos = 0
    /\ globalSymbolTable = NoTable
    /\ localCounter = [f \in Files |-> NewCounter]
    /\ propertyCounters = [f \in Files |-> NoCounters]
    /\ localSymbolTable = [f \in Files |-> NoTable]
    /\ document \in {[f \in Files |-> IF f = FormatFile THEN d ELSE NoDocument] :
                        d \in DocumentsFor(LineCount[FormatFile])}
    /\ returned = [n \in Nodes |-> {}]
    /\ allocated = [f \in Files |-> <<>>]
    /\ lastVisit = NoVisit
    /\ snapshot = [f \in Files |-> NotFormatted]
    /\ desc = NoDesc
    /\ escaped = NotRendered
    /\ rendered = NotRendered

NextFormat == (\E f \in Files : Snapshot(f)) /\ UNCHANGED codecVars

SpecFormat == InitFormat /\ [][NextFormat]_vars

(***************************************************************************)
(* The descriptor codec on its own: a descriptor is drawn, and             *)
(* escapedName and descriptorString are applied to it.                     *)
(***************************************************************************)
MaxNameLen == 3

NameAlphabet == {"a", "-", "<", Backtick}

RECURSIVE StringsUpTo(_)
\* the strings over NameAlphabet of length at most n
StringsUpTo(n) ==
    IF n = 0 THEN {<<>>}
    ELSE StringsUpTo(n - 1)
         \cup {Append(w, c) : w \in {x \in StringsUpTo(n - 1) : Len(x) = n - 1},
                              c \in NameAlphabet}

CodecNames == StringsUpTo(MaxNameLen)

Disambiguators == {<<>>, <<"1">>}

\* the run is idle while the codec is exercised
IdleRun ==
    /\ packages = [f \in Files |-> NoPackage]
    /\ refs = [r \in RefIds |-> <<>>]
    /\ values = [n \in ShorthandNodes |-> <<>>]
    /\ layout = <<>>
    /\ todo = {}
    /\ RunStart

InitCodec ==
    /\ IdleRun
    /\ desc \in [name : CodecNames, suffix : KnownSuffixes \cup OtherSuffixes,
                 disambiguator : Disambiguators]
    /\ escaped = NotRendered
    /\ rendered = NotRendered

\* escapedName(desc)
Escape ==
    /\ escaped = NotRendered
    /\ escaped' = Returned(escapedName(desc))
    /\ UNCHANGED <<desc, rendered>>

\* descriptorString(desc)
Render ==
    /\ rendered = NotRendered
    /\ rendered' = descriptorString(desc)
    /\ UNCHANGED <<desc, escaped>>

NextCodec ==
    \/ Escape /\ UNCHANGED runVars
    \/ Render /\ UNCHANGED runVars

SpecCodec == InitCodec /\ [][NextCodec]_vars

(***************************************************************************)
(* A run that indexes the single file P.                                   *)
(***************************************************************************)
InitProps ==
    /\ packages \in PackageChoices({PropsFile})
    /\ refs = [r \in RefIds |-> <<>>]
    /\ values = [n \in ShorthandNodes |-> <<>>]
    /\ layout \in Layouts
    /\ todo = {PropsFile}
    /\ RunStart
    /\ desc = NoDesc
    /\ escaped = NotRendered
    /\ rendered = NotRendered

SpecProps == InitProps /\ [][Next]_vars

(***************************************************************************)
(* Claims                                                                  *)
(***************************************************************************)

\* C1: every call of lsifSymbol for a node in one run returns the identity the
\* first call of the run returned for it, whichever FileIndexer makes the call.
C1_ResolveIdempotent ==
    \A n \in Nodes : Cardinality(returned[n]) <= 1

DeclarationKinds ==
    {"ClassDeclaration", "Constructor", "Parameter", "FunctionDeclaration",
     "VariableDeclaration", "ShorthandPropertyAssignment", "PropertyAssignment",
     "InterfaceDeclaration", "EnumDeclaration", "EnumMember", "ImportSpecifier"}

DeclarationNodes == {n \in Nodes : Kind[n] \in DeclarationKinds}

\* C2: two distinct declaration nodes that both hold a Global identity have
\* different symbol strings.
C2_GlobalStringsDiffer ==
    \A m, n \in DeclarationNodes :
        (m # n /\ isGlobal(globalSymbolTable[m]) /\ isGlobal(globalSymbolTable[n]))
            => value(globalSymbolTable[m]) # value(globalSymbolTable[n])

\* C3: when the run has indexed its files, every node that holds a Global identity
\* holds the same symbol string after a run that indexes the same files in any
\* other order (where it holds a Global identity too).
C3_OrderIndependent ==
    RunDone =>
        \A o \in Orders(todo) : \A n \in Nodes :
            (isGlobal(globalSymbolTable[n]) /\ isGlobal(Run(o)[n]))
                => value(globalSymbolTable[n]) = value(Run(o)[n])

PropertyNodes ==
    {n \in Nodes : Kind[n] \in {"PropertyAssignment", "ShorthandPropertyAssignment"}}

\* C9: two object-literal property assignments of one file with the same property
\* name never hold the same identity.
C9_SameNamePropertiesDiffer ==
    \A m, n \in PropertyNodes :
        (/\ m # n
         /\ SourceFileOf[m] = SourceFileOf[n]
         /\ NameText[m] = NameText[n]
         /\ globalSymbolTable[m] # NoSym
         /\ globalSymbolTable[n] # NoSym)
            => globalSymbolTable[m] # globalSymbolTable[n]

\* the declarations of a shorthand property's value symbol that hold a non-empty
\* identity in the caches of file f
NonEmptyValues(f, declaration) ==
    {k \in 1..Len(values[declaration]) : ~isEmpty(Identity(f, values[declaration][k]))}

\* the occurrences the claim expects of the visit of a shorthand property's name
DualOccurrences(f, i) ==
    LET k == CHOOSE j \in NonEmptyValues(f, i.parent) : TRUE
    IN << Occurrence(i.range, value(globalSymbolTable[i.parent]), Definition),
          Occurrence(i.range, value(Identity(f, values[i.parent][k])), 0) >>

\* C4: the visit of the name of a shorthand property whose value symbol has exactly
\* one declaration with a non-empty identity appends exactly two occurrences with
\* the identifier's range: the definition of the property's Meta symbol, then a
\* reference without role bits to the value declaration's symbol.
C4_ShorthandDuality ==
    \A i \in AllIdentifiers :
        (/\ lastVisit.id = i.id
         /\ i.isName
         /\ Kind[i.parent] = "ShorthandPropertyAssignment"
         /\ Cardinality(NonEmptyValues(lastVisit.file, i.parent)) = 1)
            => /\ lastVisit.occ = DualOccurrences(lastVisit.file, i)
               /\ isGlobal(globalSymbolTable[i.parent])
               /\ globalSymbolTable[i.parent].chain[Len(globalSymbolTable[i.parent].chain)].suffix
                      = "Meta"

C4_Witness ==
    /\ lastVisit.id = "A#sh"
    /\ values["A.sh"] = <<"A.a">>
    /\ Len(lastVisit.occ) = 2
    /\ lastVisit.occ[1].symbol_roles = Definition
    /\ lastVisit.occ[2].symbol = value(globalSymbolTable["A.a"])
    /\ isGlobal(globalSymbolTable["A.a"])

Ancestor(n, k) == IF k = 0 THEN n ELSE
    IF k = 1 THEN Parent[n] ELSE
    IF k = 2 THEN Parent[Parent[n]] ELSE
    IF k = 3 THEN Parent[Parent[Parent[n]]] ELSE
    IF k = 4 THEN Parent[Parent[Parent[Parent[n]]]] ELSE
    Parent[Parent[Parent[Parent[Parent[n]]]]]

\* the variables declared in a plain statement list directly under a function body
NestedBlockVariables ==
    {n \in Nodes :
        /\ Kind[n] = "VariableDeclaration"
        /\ Kind[Parent[n]] = "VariableDeclarationList"
        /\ Kind[Ancestor(n, 2)] = "VariableStatement"
        /\ Kind[Ancestor(n, 3)] = "Block"
        /\ Kind[Ancestor(n, 4)] = "Block"
        /\ Kind[Ancestor(n, 5)] = "FunctionDeclaration"}

\* C5 as claimed: a variable declared in a plain statement list directly under the
\* body of a function with a Global identity resolves to a Global identity whose
\* chain is the function's chain followed by one Term descriptor for the variable.
C5_AnonymousPassThrough ==
    \A n \in NestedBlockVariables : \A s \in returned[n] :
        isGlobal(globalSymbolTable[Ancestor(n, 5)])
            => /\ isGlobal(s)
               /\ s.chain = Append(globalSymbolTable[Ancestor(n, 5)].chain,
                                   termDescriptor(NameText[n]))

\* C5 as amended: such a variable resolves to a Local identity, also when the
\* function holds a Global one: the statement list resolves to Empty and is not
\* cached, and its variable statement, declaration list and variable are each
\* given a Local identity; none of them enters the global table.
C5_NestedBlockVariableIsLocal ==
    \A n \in NestedBlockVariables :
        /\ \A k \in 0..2 : \A s \in returned[Ancestor(n, k)] : isLocal(s)
        /\ \A k \in 0..2 : globalSymbolTable[Ancestor(n, k)] = NoSym
        /\ \A k \in 3..4 : \A s \in returned[Ancestor(n, k)] : isEmpty(s)
        /\ \A k \in 3..4 : \A f \in Files : Identity(f, Ancestor(n, k)) = NoSym

C5_Witness ==
    /\ returned["A.v"] # {}
    /\ isGlobal(globalSymbolTable["A.f"])
    /\ returned["A.blk"] = {empty}

ConstructorNodes == {n \in Nodes : Kind[n] = "Constructor"}

EndsWith(str, suffix) ==
    /\ Len(str) >= Len(suffix)
    /\ SubSeq(str, Len(str) - Len(suffix) + 1, Len(str)) = suffix

\* C6 as claimed: the constructor of a class with a Global identity has the Method
\* descriptor named <constructor>, and its symbol string is the class's string
\* followed by exactly <constructor>().
C6_ConstructorNaming ==
    \A c \in ConstructorNodes :
        (isGlobal(globalSymbolTable[Parent[c]]) /\ globalSymbolTable[c] # NoSym)
            => /\ globalSymbolTable[c].chain[Len(globalSymbolTable[c].chain)]
                      = methodDescriptor(ConstructorName)
               /\ value(globalSymbolTable[c])
                      = value(globalSymbolTable[Parent[c]])
                        \o ConstructorName \o <<"(", ")", ".">>

\* C6 as amended: the descriptor is the Method descriptor named <constructor>; the
\* class's string ends in the class name and #, and the constructor's string is
\* the class's string followed by the name wrapped in backticks and ().
C6_ConstructorNamingEscaped ==
    \A c \in ConstructorNodes :
        (isGlobal(globalSymbolTable[Parent[c]]) /\ globalSymbolTable[c] # NoSym)
            => /\ globalSymbolTable[c].chain[Len(globalSymbolTable[c].chain)]
                      = methodDescriptor(ConstructorName)
               /\ EndsWith(value(globalSymbolTable[Parent[c]]),
                           NameText[Parent[c]] \o <<"#">>)
               /\ value(globalSymbolTable[c])
                      = value(globalSymbolTable[Parent[c]])
                        \o <<Backtick>> \o ConstructorName
                        \o <<Backtick, "(", ")", ".">>

C6_Witness ==
    /\ isGlobal(globalSymbolTable["A.C"])
    /\ isGlobal(globalSymbolTable["A.ctor"])
    /\ EndsWith(value(globalSymbolTable["A.ctor"]), <<">", Backtick, "(", ")", ".">>)

RECURSIVE undouble(_)
\* every pair of backticks read as one
undouble(str) ==
    IF str = <<>> THEN <<>>
    ELSE IF Len(str) >= 2 /\ str[1] = Backtick /\ str[2] = Backtick
        THEN <<Backtick>> \o undouble(SubSeq(str, 3, Len(str)))
    ELSE <<Head(str)>> \o undouble(Tail(str))

\* the reader of an escaped name: the surrounding backticks stripped and the inner
\* ones undoubled, or the string as it is
parseEscaped(str) ==
    IF Len(str) >= 2 /\ str[1] = Backtick /\ str[Len(str)] = Backtick
    THEN undouble(SubSeq(str, 2, Len(str) - 1))
    ELSE str

\* C7: parsing the output of escapedName recovers the name, and no other name has
\* the same escaped form.
C7_EscapingRoundTrip ==
    escaped # NotRendered
        => /\ escaped.ok
           /\ parseEscaped(escaped.str) = desc.name
           /\ \A n \in CodecNames :
                  n # desc.name => escapedName(Descriptor(n, desc.suffix)) # escaped.str

C7_Witness ==
    /\ desc.name = <<Backtick, "a", Backtick>>
    /\ escaped = Returned(<<Backtick, Backtick, Backtick, "a", Backtick, Backtick, Backtick>>)

StrictlyIncreasing(seq) == \A i, j \in 1..Len(seq) : i < j => seq[i] < seq[j]

\* the local indices held by the local table of file f
LocalNodes(f) == {n \in Nodes : isLocal(localSymbolTable[f][n])}

LocalScoping ==
    \A f \in Files :
        /\ \A m, n \in LocalNodes(f) :
               m # n => localSymbolTable[f][m].index # localSymbolTable[f][n].index
        /\ StrictlyIncreasing(allocated[f])
        /\ {localSymbolTable[f][n].index : n \in LocalNodes(f)}
               = {allocated[f][i] : i \in 1..Len(allocated[f])}
        /\ Len(allocated[f]) = Cardinality(LocalNodes(f))

\* a step changes the local counter, local table and property counters of no file
\* but the one being traversed
LocalFrame ==
    \A f \in Files :
        (\/ localCounter'[f] # localCounter[f]
         \/ localSymbolTable'[f] # localSymbolTable[f]
         \/ propertyCounters'[f] # propertyCounters[f]
         \/ allocated'[f] # allocated[f])
            => cur' = f

\* C8: within one file's traversal distinct nodes with a Local identity have
\* different indices, the indices are handed out in strictly increasing order and
\* never again, and the traversal of a file leaves the local counter and local
\* table of every other file alone.
C8_LocalScoping == []LocalScoping /\ [][LocalFrame]_vars

C8_Witness ==
    /\ Len(allocated["A"]) >= 3
    /\ Len(allocated["B"]) >= 3
    /\ \E n \in Nodes : isLocal(localSymbolTable["A"][n]) /\ isLocal(localSymbolTable["B"][n])

\* the name of the rendering table
TableName(name) ==
    IF name = <<>> THEN <<>>
    ELSE IF \A i \in 1..Len(name) : name[i] \in WordChars \cup {"$", "+", "-"} THEN name
    ELSE <<Backtick>>
         \o [i \in 1..(Len(name) + Cardinality({j \in 1..Len(name) : name[j] = Backtick}))
               |-> LET src == CHOOSE k \in 1..Len(name) :
                                 i \in {k + Cardinality({j \in 1..(k - 1) : name[j] = Backtick}),
                                        k + Cardinality({j \in 1..k : name[j] = Backtick})}
                   IN name[src]]
         \o <<Backtick>>

\* the rendering table of the descriptor kinds
TableRendering(d) ==
    CASE d.suffix = "Package" -> TableName(d.name) \o <<"/">>
      [] d.suffix = "Type" -> TableName(d.name) \o <<"#">>
      [] d.suffix = "Term" -> TableName(d.name) \o <<".">>
      [] d.suffix = "Meta" -> TableName(d.name) \o <<":">>
      [] d.suffix = "Method" -> TableName(d.name) \o <<"(">> \o d.disambiguator \o <<")", ".">>
      [] d.suffix = "Parameter" -> <<"(">> \o TableName(d.name) \o <<")">>
      [] d.suffix = "TypeParameter" -> <<"[">> \o TableName(d.name) \o <<"]">>

\* C10: descriptorString renders the seven kinds as the table says, with the name
\* verbatim, empty or backtick-wrapped, and raises an error for any other kind.
C10_DescriptorStringTable ==
    rendered # NotRendered
        => IF desc.suffix \in KnownSuffixes
           THEN rendered = Returned(TableRendering(desc))
           ELSE rendered = Thrown

C10_Witness ==
    /\ desc = [name |-> <<"<", Backtick>>, suffix |-> "Method", disambiguator |-> <<"1">>]
    /\ rendered = Returned(<<Backtick, "<", Backtick, Backtick, Backtick, "(", "1", ")", ".">>)

\* the occurrences of the documents whose end position precedes the start position
InvertedOccurrences(f) ==
    {i \in 1..Len(document[f].occurrences) :
        comparePosition(fromLsif(document[f].occurrences[i].range).end,
                        fromLsif(document[f].occurrences[i].range).start) < 0}

C19_DocumentFrozen ==
    [][\A f \in Indexed : document'[f] = document[f]]_vars

C19_Witness ==
    /\ order = <<"A", "B">>
    /\ snapshot["A"].ok
    /\ snapshot["A"].shown >= 4
    /\ \E i \in 1..(Len(document["A"].occurrences) - 1) :
           /\ document["A"].occurrences[i].range = document["A"].occurrences[i + 1].range
           /\ document["A"].occurrences[i].symbol # document["A"].occurrences[i + 1].symbol

\* an identity is one of Empty, Local(index) and Global(owner chain), and the
\* descriptors of a chain are of the kinds descriptorString renders
WellFormed(s) ==
    \/ s = empty
    \/ isLocal(s) /\ s.index >= 0 /\ s.chain = <<>>
    \/ /\ isGlobal(s)
       /\ s.chain # <<>>
       /\ \A i \in 1..Len(s.chain) : descriptorString(s.chain[i]).ok

\* the declarations the visit of an identifier hands to lsifSymbol
Resolved(i) ==
    {Declarations(i)[k] : k \in 1..Len(Declarations(i))}
    \cup UNION {{values[d][k] : k \in 1..Len(values[d])} :
                   d \in {e \in ShorthandNodes :
                             i.isName /\ i.parent = e /\ ~isEmpty(Identity(lastVisit.file, e))}}

\* the nodes for which no rule but the descriptor applies and no descriptor exists
Undescribed ==
    {n \in Nodes :
        /\ Kind[n] \notin {"Block", "SourceFile", "PropertyAssignment",
                           "ShorthandPropertyAssignment"}
        /\ ~isAnonymousContainerOfSymbols(n)
        /\ ~(Kind[n] = "ImportSpecifier" /\ AliasDeclarations[n] # <<>>)
        /\ descriptor(n) = NoDescriptor}

\* C12: every call of lsifSymbol returns one well-formed identity, every
\* declaration handed to it by a visit has got one, and a node for which no
\* descriptor can be built gets a Local identity.
C12_ResolveTotal ==
    /\ \A n \in Nodes : \A s \in returned[n] : WellFormed(s)
    /\ \A i \in AllIdentifiers :
           lastVisit.id = i.id => \A n \in Resolved(i) : returned[n] # {}
    /\ \A n \in Undescribed : \A s \in returned[n] : isLocal(s)

C12_Witness ==
    /\ isGlobal(globalSymbolTable["A.o"])
    /\ \E s \in returned["A.arr"] : isLocal(s)
    /\ \E s \in returned["A.l1"] : isLocal(s)
    /\ returned["A.blk"] = {empty}
    /\ lastVisit.id = "B#r"

\* the declaration-bearing kinds: the named kinds of the dispatch of descriptor(),
\* and the two kinds of object-literal property
DeclarationBearingKinds ==
    {"InterfaceDeclaration", "EnumDeclaration", "ClassDeclaration", "ClassExpression",
     "FunctionDeclaration", "MethodSignature", "MethodDeclaration", "PropertyDeclaration",
     "PropertySignature", "EnumMember", "VariableDeclaration", "ModuleDeclaration",
     "Parameter", "TypeParameter", "PropertyAssignment", "ShorthandPropertyAssignment"}

\* C13: the occurrence a visit appends for a declaration of the identifier's symbol
\* carries the definition bit if and only if the identifier is the name child of
\* its parent and the parent is of a declaration-bearing kind.
C13_IsDefinition ==
    \A i \in AllIdentifiers :
        (lastVisit.id = i.id /\ lastVisit.occ # <<>>)
            => (isDefinitionOccurrence(lastVisit.occ[1])
                    <=> (i.isName /\ Kind[i.parent] \in DeclarationBearingKinds))

\* the fold of index() over the order agrees with the run, step by step
RECURSIVE definitionSymbols(_, _)
\* the symbols of the definition occurrences among the first k, in order
definitionSymbols(occurrences, k) ==
    IF k = 0 THEN <<>>
    ELSE LET before == definitionSymbols(occurrences, k - 1)
         IN  IF isDefinitionOccurrence(occurrences[k])
             THEN Append(before, occurrences[k].symbol)
             ELSE before

informationSymbols(symbols) == [k \in 1..Len(symbols) |-> symbols[k].symbol]

\* C14: the SymbolInformation list of a Document has one entry per occurrence
\* that carries the definition bit, in the same order and with the same symbol,
\* no entry for any other occurrence, and neither list carries the symbol of the
\* Empty identity.
C14_InformationPerDefinition ==
    /\ \A f \in Files :
          /\ informationSymbols(document[f].symbols)
                 = definitionSymbols(document[f].occurrences, Len(document[f].occurrences))
          /\ \A k \in 1..Len(document[f].occurrences) :
                 document[f].occurrences[k].symbol # value(empty)
          /\ \A k \in 1..Len(document[f].symbols) :
                 document[f].symbols[k].symbol # value(empty)
    /\ informationSymbols(lastVisit.sym) = definitionSymbols(lastVisit.occ, Len(lastVisit.occ))

\* A is indexed: the name of its merged interface has given two entries and a
\* shorthand definition two occurrences and one entry; the reference of B just
\* visited, to the module of a file without a package, has given nothing.
C14_Witness ==
    /\ order = <<"A">>
    /\ cur = "B"
    /\ packages["A"] = NoPackage
    /\ refs["B#r"] = <<"A">>
    /\ lastVisit.id = "B#r"
    /\ lastVisit.occ = <<>>
    /\ \E j, k \in 1..Len(document["A"].symbols) :
          j < k /\ document["A"].symbols[j].documentation = document["A"].symbols[k].documentation
    /\ \E k \in 1..(Len(document["A"].occurrences) - 1) :
          /\ isDefinitionOccurrence(document["A"].occurrences[k])
          /\ ~isDefinitionOccurrence(document["A"].occurrences[k + 1])
          /\ document["A"].occurrences[k + 1].range = document["A"].occurrences[k].range

\* the descriptor a node contributes to the chains below it, if any
ownDescriptor(n) ==
    IF isAnonymousContainerOfSymbols(n) \/ descriptor(n) = NoDescriptor THEN <<>>
    ELSE <<descriptor(n)>>

\* the package descriptor of a file, if it is in a package
packageChain(f) ==
    IF packages[f] = NoPackage THEN <<>> ELSE <<packageDescriptor(packages[f])>>

RECURSIVE syntacticChain(_)
\* the package descriptor of the node's file, then the descriptors of the
\* descriptor-contributing nodes from the outermost ancestor down to the node
syntacticChain(n) ==
    IF Kind[n] = "SourceFile" THEN packageChain(SourceFileOf[n])
    ELSE syntacticChain(Parent[n]) \o ownDescriptor(n)

\* d is a Meta descriptor named after the property n and a counter value
isMetaOf(d, n) ==
    /\ d.suffix = "Meta"
    /\ \E k \in 0..Cardinality(PropertyNodes) : d.name = NameText[n] \o Decimal(k)

\* C15 (as claimed): the chain of every node that holds a Global identity is the
\* package descriptor of its file, the descriptors of its descriptor-contributing
\* ancestors from the outermost to the innermost, and its own descriptor.
C15_ChainFromPackage ==
    \A n \in Nodes :
        isGlobal(globalSymbolTable[n]) =>
            LET chain == globalSymbolTable[n].chain
            IN  /\ packages[SourceFileOf[n]] # NoPackage
                /\ IF n \in PropertyNodes
                   THEN /\ isMetaOf(chain[Len(chain)], n)
                        /\ SubSeq(chain, 1, Len(chain) - 1) = syntacticChain(Parent[n])
                   ELSE chain = syntacticChain(n)

\* C15 (amended): the chain of a node that holds a Global identity and is not an
\* object-literal property is the package descriptor of its file, the descriptors
\* of its descriptor-contributing ancestors and its own descriptor, if it has one;
\* the chain of a property is the chain of its file's root (the package descriptor,
\* or nothing for a file in no package) and one Meta descriptor, whatever stands
\* between the root and the property.
C15_ChainFromPackageOrRoot ==
    \A n \in Nodes :
        isGlobal(globalSymbolTable[n]) =>
            LET chain == globalSymbolTable[n].chain
            IN  IF n \in PropertyNodes
                THEN /\ isMetaOf(chain[Len(chain)], n)
                     /\ SubSeq(chain, 1, Len(chain) - 1) = packageChain(SourceFileOf[n])
                ELSE /\ packages[SourceFileOf[n]] # NoPackage
                     /\ chain = syntacticChain(n)

\* In one state: a constructor parameter with a chain of four descriptors, a
\* variable statement holding its owner's chain, a property of a packaged file
\* under a Global variable, and a property of a file in no package.
C15_Witness ==
    /\ isGlobal(globalSymbolTable["A.q"])
    /\ Len(globalSymbolTable["A.q"].chain) = 4
    /\ isGlobal(globalSymbolTable["A.as"])
    /\ isGlobal(globalSymbolTable["A.o"])
    /\ isGlobal(globalSymbolTable["A.pa"])
    /\ Len(globalSymbolTable["A.pa"].chain) = 2
    /\ packages["B"] = NoPackage
    /\ isGlobal(globalSymbolTable["B.pb"])
    /\ Len(globalSymbolTable["B.pb"].chain) = 1

\* the identity lsifSymbol(node.parent) has in file f: a block is never cached
\* and is Empty at every call
ownerIdentity(f, n) ==
    IF Kind[Parent[n]] = "Block" THEN empty ELSE Identity(f, Parent[n])

\* the nodes lsifSymbol resolves through their owner
OwnedNodes == {n \in Nodes : Kind[n] \notin {"Block", "SourceFile"}} \ PropertyNodes

LocalsOfCurrentFile ==
    /\ \A n \in Nodes : ~isLocal(globalSymbolTable[n])
    /\ \A f \in Files : \A n \in OwnedNodes :
          (/\ Identity(f, n) # NoSym
           /\ isEmpty(ownerIdentity(f, n)) \/ isLocal(ownerIdentity(f, n)))
              => /\ isLocal(localSymbolTable[f][n])
                 /\ globalSymbolTable[n] = NoSym

\* an entry of a local table is new, Local, of an index the file has not handed
\* out before, and comes with no entry of the global table
LocalEntriesFresh ==
    \A f \in Files : \A n \in Nodes :
        localSymbolTable'[f][n] # localSymbolTable[f][n]
            => /\ f = cur'
               /\ localSymbolTable[f][n] = NoSym
               /\ isLocal(localSymbolTable'[f][n])
               /\ \A i \in 1..Len(allocated[f]) :
                      allocated[f][i] # localSymbolTable'[f][n].index
               /\ \A m \in Nodes \ {n} :
                      localSymbolTable'[f][m] # localSymbolTable'[f][n]
               /\ globalSymbolTable[n] = NoSym
               /\ globalSymbolTable'[n] = NoSym

\* C16: a node resolved through an owner that is Empty or Local holds a Local
\* identity in the local table of the resolving file and no entry in the global
\* table; the index of a new Local identity was never handed out in that file
\* before, and the global table never holds a Local identity.
C16_LocalsOfCurrentFile == []LocalsOfCurrentFile /\ [][LocalEntriesFresh]_vars

\* A is in a package and B in none: in A the variable under a nested block and
\* its wrappers are Local below a Global function, in B every declaration is Local
\* below the Empty root, and the class of A is Local to B as well.
C16_Witness ==
    /\ isGlobal(globalSymbolTable["A.f"])
    /\ isLocal(localSymbolTable["A"]["A.vs"])
    /\ isLocal(localSymbolTable["A"]["A.vl"])
    /\ isLocal(localSymbolTable["A"]["A.v"])
    /\ isEmpty(globalSymbolTable["B"])
    /\ isLocal(localSymbolTable["B"]["B.as"])
    /\ isLocal(localSymbolTable["B"]["B.a"])
    /\ isLocal(localSymbolTable["B"]["B.spec"])

BlockNodes == {n \in Nodes : Kind[n] = "Block"}

\* lsifSymbol of a block answers Empty and changes neither table nor counter
BlockCallFrame(f, n) ==
    LET ix == Indexer(f)
        r == lsifSymbol(ix, n)
    IN  /\ r.sym = empty
        /\ r.ix.g = ix.g
        /\ r.ix.l = ix.l
        /\ r.ix.lc = ix.lc
        /\ r.ix.pc = ix.pc

\* C17 (as claimed): once a block has been resolved the global table holds the
\* Empty identity for it, every resolve of it has returned Empty, and a resolve
\* of it changes no counter.
C17_BlockCachedEmpty ==
    \A n \in BlockNodes :
        /\ returned[n] \subseteq {empty}
        /\ returned[n] # {} => globalSymbolTable[n] = empty
        /\ \A f \in Files :
              /\ lsifSymbol(Indexer(f), n).ix.lc = localCounter[f]
              /\ lsifSymbol(Indexer(f), n).ix.pc = propertyCounters[f]

\* C17 (amended): every resolve of a block returns Empty and records nothing: no
\* table of the run ever holds an entry for a block, and a resolve of a block in
\* any state of any file's indexer leaves both tables and all counters as they are.
C17_BlockEmptyUncached ==
    \A n \in BlockNodes :
        /\ returned[n] \subseteq {empty}
        /\ globalSymbolTable[n] = NoSym
        /\ \A f \in Files :
              /\ localSymbolTable[f][n] = NoSym
              /\ BlockCallFrame(f, n)

\* The variable under the nested block of A has been resolved, through the block.
C17_Witness ==
    /\ returned["A.blk"] = {empty}
    /\ returned["A.vs"] # {}
    /\ localCounter["A"] >= 2
    /\ propertyCounters["A"][<<"a">>] >= 0
    /\ globalSymbolTable["A.blk"] = NoSym

\* the import specifiers whose aliased type has a declaration
AliasNodes == {n \in Nodes : Kind[n] = "ImportSpecifier" /\ AliasDeclarations[n] # <<>>}

\* lsifSymbol of an import specifier below a Global owner, called in the state of
\* file f's indexer, answers what lsifSymbol of the first aliased declaration
\* answers there, and enters the specifier in no table
AliasCall(f, n) ==
    LET ix == Indexer(f)
        r == lsifSymbol(ix, n)
    IN  isGlobal(lsifSymbol(ix, Parent[n]).sym)
            => /\ r.sym = lsifSymbol(ix, AliasDeclarations[n][1]).sym
               /\ r.ix.g[n] = NoSym
               /\ r.ix.l[n] = NoSym

\* C18: an import specifier below a Global owner resolves to the identity of the
\* first declaration of its aliased type, as lsifSymbol returns it for that
\* declaration in the same state; the occurrence at the specifier carries that
\* declaration's symbol, and no table ever holds a Global identity for the
\* specifier itself.
C18_AliasTransparent ==
    \A n \in AliasNodes :
        /\ globalSymbolTable[n] = NoSym
        /\ \A f \in Files : AliasCall(f, n)
        /\ packages[SourceFileOf[n]] # NoPackage
              => /\ returned[n] \subseteq returned[AliasDeclarations[n][1]]
                 /\ \A f \in Files : localSymbolTable[f][n] = NoSym
        /\ \A i \in AllIdentifiers :
              (/\ i.parent = n
               /\ lastVisit.id = i.id
               /\ packages[SourceFileOf[n]] # NoPackage)
                  => lastVisit.occ
                        = <<Occurrence(rangeOf(i),
                                       value(Identity(lastVisit.file, AliasDeclarations[n][1])),
                                       0)>>

\* The name of the import specifier of B has just been visited; B is in package p
\* and the class the specifier stands for holds a Global identity of package q.
C18_Witness ==
    /\ lastVisit.id = "B#C"
    /\ packages["B"] = <<"p">>
    /\ packages["A"] = <<"q">>
    /\ isGlobal(globalSymbolTable["B.ni"])
    /\ isGlobal(globalSymbolTable["A.C"])
    /\ returned["B.spec"] = {globalSymbolTable["A.C"]}
    /\ Len(lastVisit.occ) = 1

\* the Meta descriptor a property assignment holds
metaOf(n) == globalSymbolTable[n].chain[Len(globalSymbolTable[n].chain)]

\* C20: in a run that indexes a single file, two distinct property assignments,
\* of equal or of different names, hold Meta descriptors of different names and
\* different symbol strings.
C20_MetaNamesDiffer ==
    todo = {PropsFile} =>
        \A m, n \in PropertyNodes :
            (m # n /\ isGlobal(globalSymbolTable[m]) /\ isGlobal(globalSymbolTable[n]))
                => /\ metaOf(m).name # metaOf(n).name
                   /\ value(globalSymbolTable[m]) # value(globalSymbolTable[n])

\* C21: formatSnapshot returns normally for every Document whose occurrences have
\* single-line ranges with start column not greater than end column and a line of
\* the input, a Document without occurrences and occurrences starting at column 0
\* or 1 included, and its output then holds every input line once, in input order.
C21_FormatSnapshotTotal ==
    \A f \in Files :
        (/\ snapshot[f] # NotFormatted
         /\ \A k \in 1..Len(document[f].occurrences) :
               /\ Len(document[f].occurrences[k].range) = 3
               /\ document[f].occurrences[k].range[1] \in 0..(LineCount[f] - 1)
               /\ document[f].occurrences[k].range[2] <= document[f].occurrences[k].range[3])
            => /\ snapshot[f].ok
               /\ snapshot[f].lines = [k \in 1..LineCount[f] |-> k - 1]

RunAgrees == RunDone => globalSymbolTable = Run(order)

====
